---- MODULE Spec2Model ----
(***************************************************************************)
(* The command registry and command-line factory of alot                   *)
(* (alot/commands/__init__.py).                                            *)
(*                                                                         *)
(* A Python str is a sequence of one-character strings.  Mode identifiers *)
(* and class identities are atoms (TLA+ strings); chars(m) gives the       *)
(* characters of a mode identifier where the code formats it into a        *)
(* string.  None is the atom None wherever the source stores it in place   *)
(* of a class, parser, mode or name; as a parameter value it is the        *)
(* one-element sequence holding that atom, so that every parameter value   *)
(* is a sequence of strings.                                               *)
(***************************************************************************)
EXTENDS Integers, Sequences, FiniteSets, TLC

(* COMMANDS          mode -> (name -> (class, parser, forced)), the module's dict *)
(* REVERSE_COMMANDS  class -> (name, mode), the module's dict                     *)
(* hooks             the names the hooks file defines (settings.get_hook)         *)
(* history           the successful registrations so far, in order; the code      *)
(*                   keeps no such record, the properties speak of it             *)
(* last              the call made last: its arguments and its outcome            *)
VARIABLES COMMANDS, REVERSE_COMMANDS, hooks, history, last

vars == <<COMMANDS, REVERSE_COMMANDS, hooks, history, last>>

----------------------------------------------------------------------------
(* Characters and strings *)

SQ == "'"
DQ == "\""
BS == "\\"
SP == " "
BANG == "!"

\* the byte 0xFF, which is not valid UTF-8, and U+FFFD, which replaces it
BADBYTE == "xFF"
REPLACEMENT == "uFFFD"

Prefix(s, n) == SubSeq(s, 1, n)

Suffix(s, n) == SubSeq(s, n, Len(s))

startswith(s, p) == Len(s) >= Len(p) /\ Prefix(s, Len(p)) = p

Positions(s, c) == {i \in 1..Len(s) : s[i] = c}

Min(S) == CHOOSE x \in S : \A y \in S : x <= y

Max(S) == CHOOSE x \in S : \A y \in S : x >= y

shellescape == <<"s", "h", "e", "l", "l", "e", "s", "c", "a", "p", "e">>

----------------------------------------------------------------------------
\* a pre-pass that leaves the line as it is
QuotePrepass_none(cmdline) == cmdline

(* The quote pre-pass: re.sub of the pattern DQ, a greedy group of any     *)
(* characters, DQ, by DQ BS DQ, the group, BS DQ DQ.  The group is greedy  *)
(* and no character of a command line is a newline, so the only match runs *)
(* from the first double quote of the line to its last one.                *)

QuotePrepass(cmdline) ==
    LET q == Positions(cmdline, DQ)
    IN  IF Cardinality(q) < 2
        THEN cmdline
        ELSE LET i == Min(q)
                 j == Max(q)
             IN  Prefix(cmdline, i - 1)
                 \o <<DQ, BS, DQ>> \o SubSeq(cmdline, i + 1, j - 1) \o <<BS, DQ, DQ>>
                 \o Suffix(cmdline, j + 1)

\* cmdline becomes shellescape, a space, and cmdline[1:] in single quotes
BangRewrite(cmdline) ==
    IF startswith(cmdline, <<BANG>>)
    THEN shellescape \o <<SP, SQ>> \o Tail(cmdline) \o <<SQ>>
    ELSE cmdline

----------------------------------------------------------------------------
(* helper.split_commandstring: shlex.split(cmdstring), that is a POSIX     *)
(* shlex with whitespace_split set and no commenters.  Lex is read_token's *)
(* loop run over the whole line: st is the lexer state (a space between    *)
(* tokens, a inside a word, a quote character inside quotes, the escape    *)
(* character after a backslash), esc its escapedstate, tok the token being *)
(* built, quoted whether the token had a quoted part, acc the tokens       *)
(* returned so far.                                                        *)

whitespace == {SP, "\t", "\r", "\n"}

quotes == {SQ, DQ}

escape == {BS}

escapedquotes == {DQ}

Tokens(ts) == [ok |-> TRUE, tokens |-> ts, message |-> ""]

ValueError(msg) == [ok |-> FALSE, tokens |-> <<>>, message |-> msg]

RECURSIVE Lex(_, _, _, _, _, _, _)
Lex(s, i, st, esc, tok, quoted, acc) ==
    IF i > Len(s)
    THEN CASE st = " " -> Tokens(acc)
           [] st = "a" -> Tokens(IF tok = <<>> /\ ~quoted THEN acc ELSE Append(acc, tok))
           [] st \in quotes -> ValueError("No closing quotation")
           [] OTHER -> ValueError("No escaped character")
    ELSE LET c == s[i]
         IN  CASE st = " " ->
                    IF c \in whitespace THEN Lex(s, i + 1, " ", esc, tok, quoted, acc)
                    ELSE IF c \in escape THEN Lex(s, i + 1, c, "a", tok, quoted, acc)
                    ELSE IF c \in quotes THEN Lex(s, i + 1, c, esc, tok, quoted, acc)
                    ELSE Lex(s, i + 1, "a", esc, <<c>>, quoted, acc)
               [] st = "a" ->
                    IF c \in whitespace
                    THEN IF tok # <<>> \/ quoted
                         THEN Lex(s, i + 1, " ", " ", <<>>, FALSE, Append(acc, tok))
                         ELSE Lex(s, i + 1, " ", esc, tok, quoted, acc)
                    ELSE IF c \in quotes THEN Lex(s, i + 1, c, esc, tok, quoted, acc)
                    ELSE IF c \in escape THEN Lex(s, i + 1, c, "a", tok, quoted, acc)
                    ELSE Lex(s, i + 1, "a", esc, Append(tok, c), quoted, acc)
               [] st \in quotes ->
                    IF c = st THEN Lex(s, i + 1, "a", esc, tok, TRUE, acc)
                    ELSE IF c \in escape /\ st \in escapedquotes
                    THEN Lex(s, i + 1, c, st, tok, TRUE, acc)
                    ELSE Lex(s, i + 1, st, esc, Append(tok, c), TRUE, acc)
               [] OTHER ->
                    LET kept == IF esc \in quotes /\ c # st /\ c # esc
                                THEN Append(tok, st) ELSE tok
                    IN  Lex(s, i + 1, esc, esc, Append(kept, c), quoted, acc)

split_commandstring(cmdstring) == Lex(cmdstring, 1, " ", " ", <<>>, FALSE, <<>>)

\* helper.string_decode(x, utf-8): decoding with errors=replace
string_decode(x) == [i \in DOMAIN x |-> IF x[i] = BADBYTE THEN REPLACEMENT ELSE x[i]]

----------------------------------------------------------------------------
(* The registries *)

None == "None"

\* None where the source holds a str: the command name of an unregistered class
NoneStr == <<None>>

\* the keys of COMMANDS
Modes == {"search", "envelope", "bufferlist", "taglist", "thread", "global"}

\* '%s' % mode
chars(mode) ==
    CASE mode = "search" -> <<"s", "e", "a", "r", "c", "h">>
      [] mode = "envelope" -> <<"e", "n", "v", "e", "l", "o", "p", "e">>
      [] mode = "bufferlist" -> <<"b", "u", "f", "f", "e", "r", "l", "i", "s", "t">>
      [] mode = "taglist" -> <<"t", "a", "g", "l", "i", "s", "t">>
      [] mode = "thread" -> <<"t", "h", "r", "e", "a", "d">>
      [] mode = "global" -> <<"g", "l", "o", "b", "a", "l">>
      [] mode = "nomode" -> <<"n", "o", "m", "o", "d", "e">>
      [] OTHER -> <<"N", "o", "n", "e">>

\* '%s' % cmdname
str(cmdname) == IF cmdname = NoneStr THEN <<"N", "o", "n", "e">> ELSE cmdname

\* the outcome of a call: the value returned, or the exception that escaped
Return(v) == [exc |-> None, value |-> v]

Raise(e) == [exc |-> e, value |-> <<>>]

NotFound == <<None, None, None>>

\* lookup_command with the two tests in the other order
lookup_command_global_first(cmdname, mode) ==
    IF mode \notin DOMAIN COMMANDS THEN Raise("KeyError")
    ELSE IF cmdname \in DOMAIN COMMANDS["global"] THEN Return(COMMANDS["global"][cmdname])
    ELSE IF cmdname \in DOMAIN COMMANDS[mode] THEN Return(COMMANDS[mode][cmdname])
    ELSE Return(NotFound)

lookup_command(cmdname, mode) ==
    IF mode \notin DOMAIN COMMANDS THEN Raise("KeyError")
    ELSE IF cmdname \in DOMAIN COMMANDS[mode] THEN Return(COMMANDS[mode][cmdname])
    ELSE IF cmdname \in DOMAIN COMMANDS["global"] THEN Return(COMMANDS["global"][cmdname])
    ELSE Return(NotFound)

lookup_parser(cmdname, mode) ==
    LET r == lookup_command(cmdname, mode)
    IN  IF r.exc # None THEN r ELSE Return(r.value[2])

reverse_lookup_command(class_) ==
    IF class_ \in DOMAIN REVERSE_COMMANDS
    THEN REVERSE_COMMANDS[class_]
    ELSE <<NoneStr, None>>

\* the parser registerCommand.__call__ builds: prog and the declared arguments
CommandArgumentParser(prog, arguments) == [prog |-> prog, arguments |-> arguments]

----------------------------------------------------------------------------
(* CommandArgumentParser.parse_args: argparse over the declarations the    *)
(* registrations of this model use, which are long options (a name that    *)
(* starts with two dashes) that store one value, and at most one           *)
(* positional, with nargs None or ?.  No command line here has    *)
(* an = or a digit, and a dash only inside an option name, so explicit     *)
(* arguments, negative numbers, short options and the bare double dash do  *)
(* not arise.  error() raises CommandParseError; the message is kept to    *)
(* its fixed part.                                                         *)

Parsed(parms) == [ok |-> TRUE, parms |-> parms, message |-> <<>>]

ParserError(msg) == [ok |-> FALSE, parms |-> <<>>, message |-> <<msg>>]

prefix_chars == {"-"}

IsOptional(decl) == decl.name[1] \in prefix_chars

RECURSIVE lstrip(_)
lstrip(s) == IF s # <<>> /\ Head(s) \in prefix_chars THEN lstrip(Tail(s)) ELSE s

\* the dest argparse infers from the name
dest(decl) ==
    IF IsOptional(decl)
    THEN LET d == lstrip(decl.name) IN [i \in DOMAIN d |-> IF d[i] = "-" THEN "_" ELSE d[i]]
    ELSE decl.name

default(decl) == NoneStr

option_strings(arguments) ==
    {arguments[i].name : i \in {j \in DOMAIN arguments : IsOptional(arguments[j])}}

action_of(arguments, option_string) ==
    arguments[Max({i \in DOMAIN arguments : arguments[i].name = option_string})]

positionals(arguments) == {i \in DOMAIN arguments : ~IsOptional(arguments[i])}

\* the namespace before parsing: every dest with the default of its first declaration
defaults(arguments) ==
    [k \in {dest(arguments[i]) : i \in DOMAIN arguments} |->
        default(arguments[Min({i \in DOMAIN arguments : dest(arguments[i]) = k})])]

\* _parse_optional: A for a positional string, O for an option string (known,
\* abbreviated or unknown), E where the abbreviation is ambiguous
parse_optional(arguments, arg_string) ==
    LET abbreviated == IF startswith(arg_string, <<"-", "-">>)
                       THEN {o \in option_strings(arguments) : startswith(o, arg_string)}
                       ELSE {}
    IN  IF arg_string = <<>> THEN [pat |-> "A", option |-> NoneStr]
        ELSE IF arg_string[1] \notin prefix_chars THEN [pat |-> "A", option |-> NoneStr]
        ELSE IF arg_string \in option_strings(arguments)
        THEN [pat |-> "O", option |-> arg_string]
        ELSE IF Len(arg_string) = 1 THEN [pat |-> "A", option |-> NoneStr]
        ELSE IF Cardinality(abbreviated) > 1 THEN [pat |-> "E", option |-> NoneStr]
        ELSE IF Cardinality(abbreviated) = 1
        THEN [pat |-> "O", option |-> CHOOSE o \in abbreviated : TRUE]
        ELSE IF SP \in {arg_string[i] : i \in DOMAIN arg_string}
        THEN [pat |-> "A", option |-> NoneStr]
        ELSE [pat |-> "O", option |-> NoneStr]

set(ns, key, value) == [k \in DOMAIN ns \cup {key} |-> IF k = key THEN value ELSE ns[k]]

\* parse_args' last step: leftover strings are an error
finish(ns, extras) ==
    IF extras # <<>> THEN ParserError("unrecognized arguments") ELSE Parsed(ns)

\* _parse_known_args from start_index i; posleft: the positional is not yet consumed
RECURSIVE consume(_, _, _, _, _, _, _)
consume(arguments, arg_strings, pats, i, posleft, ns, extras) ==
    LET n == Len(arg_strings)
        option_string_indices == {j \in i..n : pats[j].pat = "O"}
        positional == arguments[CHOOSE j \in positionals(arguments) : TRUE]
    IN  IF option_string_indices = {}
        THEN \* consume_positionals, then the checks after the loop
             IF ~posleft THEN finish(ns, extras \o SubSeq(arg_strings, i, n))
             ELSE IF i <= n
             THEN finish(set(ns, dest(positional), arg_strings[i]),
                         extras \o SubSeq(arg_strings, i + 1, n))
             ELSE IF positional.nargs = "?" THEN finish(ns, extras)
             ELSE ParserError("too few arguments")
        ELSE IF i \notin option_string_indices
        THEN IF posleft
             THEN consume(arguments, arg_strings, pats, i + 1, FALSE,
                          set(ns, dest(positional), arg_strings[i]), extras)
             ELSE LET next == Min(option_string_indices)
                  IN  consume(arguments, arg_strings, pats, next, posleft, ns,
                              extras \o SubSeq(arg_strings, i, next - 1))
        ELSE \* consume_optional
             IF pats[i].option = NoneStr
             THEN consume(arguments, arg_strings, pats, i + 1, posleft, ns,
                          Append(extras, arg_strings[i]))
             ELSE LET action == action_of(arguments, pats[i].option)
                  IN  IF i + 1 <= n /\ pats[i + 1].pat = "A"
                      THEN consume(arguments, arg_strings, pats, i + 2, posleft,
                                   set(ns, dest(action), arg_strings[i + 1]), extras)
                      ELSE ParserError("expected one argument")

parse_args(parser, args) ==
    LET pats == [j \in DOMAIN args |-> parse_optional(parser.arguments, args[j])]
    IN  IF \E j \in DOMAIN args : pats[j].pat = "E"
        THEN ParserError("ambiguous option")
        ELSE consume(parser.arguments, args, pats, 1,
                     positionals(parser.arguments) # {}, defaults(parser.arguments), <<>>)

----------------------------------------------------------------------------
(* Command.__init__: the hooks of a new command *)

\* settings.get_hook: the hook defined under that name, else None; a hook is
\* identified by the name it is defined under
get_hook(key) == IF key \in hooks THEN key ELSE NoneStr

hookname(when, mode, cmdname) == when \o <<"_">> \o mode \o <<"_">> \o str(cmdname)

pre == <<"p", "r", "e">>

post == <<"p", "o", "s", "t">>

\* a or b
or(a, b) == IF a # NoneStr THEN a ELSE b

\* Command.__init__ with the global hook tried first
Command_init_global_first(class_) ==
    LET cmdname == reverse_lookup_command(class_)[1]
        mode == reverse_lookup_command(class_)[2]
    IN  [cls |-> class_,
         undoable |-> FALSE,
         prehook |-> or(get_hook(hookname(pre, chars("global"), cmdname)),
                        get_hook(hookname(pre, chars(mode), cmdname))),
         posthook |-> or(get_hook(hookname(post, chars("global"), cmdname)),
                         get_hook(hookname(post, chars(mode), cmdname)))]

Command_init(class_) ==
    LET cmdname == reverse_lookup_command(class_)[1]
        mode == reverse_lookup_command(class_)[2]
    IN  [cls |-> class_,
         undoable |-> FALSE,
         prehook |-> or(get_hook(hookname(pre, chars(mode), cmdname)),
                        get_hook(hookname(pre, chars("global"), cmdname))),
         posthook |-> or(get_hook(hookname(post, chars(mode), cmdname)),
                         get_hook(hookname(post, chars("global"), cmdname)))]

----------------------------------------------------------------------------
(* commandfactory under Python 2, which the module is written for (the     *)
(* message of the tokenizer's ValueError is read from e.message).  The     *)
(* class it calls is taken to be a subclass of Command that accepts the    *)
(* keywords and runs Command.__init__.  The outcome records what came back *)
(* (kind: None, a Command, or a raise with the exception and its message)  *)
(* and how far the call went: the command name and the argument strings it *)
(* split off, and whether it looked the name up, ran the parser, and       *)
(* called the class.                                                       *)

NoOutcome ==
    [kind |-> None, exc |-> None, message |-> <<>>, cmdname |-> NoneStr, args |-> <<>>,
     looked_up |-> FALSE, parsed |-> FALSE, instantiated |-> FALSE,
     cls |-> None, parms |-> <<>>, prehook |-> NoneStr, posthook |-> NoneStr]

\* forcedparms used as defaults only
update_keep_parsed(parms, forcedparms) ==
    [k \in DOMAIN parms \cup DOMAIN forcedparms |->
        IF k \in DOMAIN parms THEN parms[k] ELSE forcedparms[k]]

\* parms.update(forcedparms)
update(parms, forcedparms) ==
    [k \in DOMAIN parms \cup DOMAIN forcedparms |->
        IF k \in DOMAIN forcedparms THEN forcedparms[k] ELSE parms[k]]

\* the message without the name
unknown_command_no_name(cmdname) == <<"unknown command: ">>

\* 'unknown command: %s' % cmdname
unknown_command(cmdname) == <<"unknown command: ">> \o cmdname

\* commandfactory without the except clause around the split
commandfactory_valueerror_escapes(cmdline, mode) ==
    IF cmdline = <<>> THEN NoOutcome
    ELSE
    LET split == split_commandstring(QuotePrepass(BangRewrite(cmdline)))
        decoded == [i \in DOMAIN split.tokens |-> string_decode(split.tokens[i])]
        cmdname == decoded[1]
        args == Tail(decoded)
        found == lookup_command(cmdname, mode)
        cmdclass == found.value[1]
        parser == found.value[2]
        forcedparms == found.value[3]
        parsed == parse_args(parser, args)
        parms == update(parsed.parms, forcedparms)
        cmd == Command_init(cmdclass)
    IN  IF ~split.ok
        THEN [NoOutcome EXCEPT !.kind = "raise", !.exc = "ValueError",
                               !.message = <<split.message>>]
        ELSE IF decoded = <<>>
        THEN [NoOutcome EXCEPT !.kind = "raise", !.exc = "IndexError"]
        ELSE IF found.exc # None
        THEN [NoOutcome EXCEPT !.kind = "raise", !.exc = found.exc, !.cmdname = cmdname,
                               !.args = args, !.looked_up = TRUE]
        ELSE IF cmdclass = None
        THEN [NoOutcome EXCEPT !.kind = "raise", !.exc = "CommandParseError",
                               !.message = unknown_command(cmdname), !.cmdname = cmdname,
                               !.args = args, !.looked_up = TRUE]
        ELSE IF ~parsed.ok
        THEN [NoOutcome EXCEPT !.kind = "raise", !.exc = "CommandParseError",
                               !.message = parsed.message, !.cmdname = cmdname,
                               !.args = args, !.looked_up = TRUE, !.parsed = TRUE]
        ELSE [NoOutcome EXCEPT !.kind = "Command", !.cmdname = cmdname, !.args = args,
                               !.looked_up = TRUE, !.parsed = TRUE, !.instantiated = TRUE,
                               !.cls = cmdclass, !.parms = parms,
                               !.prehook = cmd.prehook, !.posthook = cmd.posthook]

\* commandfactory without the early return on an empty line
commandfactory_no_empty_check(cmdline, mode) ==
    LET split == split_commandstring(QuotePrepass(BangRewrite(cmdline)))
        decoded == [i \in DOMAIN split.tokens |-> string_decode(split.tokens[i])]
        cmdname == decoded[1]
        args == Tail(decoded)
        found == lookup_command(cmdname, mode)
        cmdclass == found.value[1]
        parser == found.value[2]
        forcedparms == found.value[3]
        parsed == parse_args(parser, args)
        parms == update(parsed.parms, forcedparms)
        cmd == Command_init(cmdclass)
    IN  IF ~split.ok
        THEN [NoOutcome EXCEPT !.kind = "raise", !.exc = "CommandParseError",
                               !.message = <<split.message>>]
        ELSE IF decoded = <<>>
        THEN [NoOutcome EXCEPT !.kind = "raise", !.exc = "IndexError"]
        ELSE IF found.exc # None
        THEN [NoOutcome EXCEPT !.kind = "raise", !.exc = found.exc, !.cmdname = cmdname,
                               !.args = args, !.looked_up = TRUE]
        ELSE IF cmdclass = None
        THEN [NoOutcome EXCEPT !.kind = "raise", !.exc = "CommandParseError",
                               !.message = unknown_command(cmdname), !.cmdname = cmdname,
                               !.args = args, !.looked_up = TRUE]
        ELSE IF ~parsed.ok
        THEN [NoOutcome EXCEPT !.kind = "raise", !.exc = "CommandParseError",
                               !.message = parsed.message, !.cmdname = cmdname,
                               !.args = args, !.looked_up = TRUE, !.parsed = TRUE]
        ELSE [NoOutcome EXCEPT !.kind = "Command", !.cmdname = cmdname, !.args = args,
                               !.looked_up = TRUE, !.parsed = TRUE, !.instantiated = TRUE,
                               !.cls = cmdclass, !.parms = parms,
                               !.prehook = cmd.prehook, !.posthook = cmd.posthook]

\* commandfactory giving the command the hooks of the mode and name it
\* resolved the line with
commandfactory_hooks_by_entry(cmdline, mode) ==
    IF cmdline = <<>> THEN NoOutcome
    ELSE
    LET split == split_commandstring(QuotePrepass(BangRewrite(cmdline)))
        decoded == [i \in DOMAIN split.tokens |-> string_decode(split.tokens[i])]
        cmdname == decoded[1]
        args == Tail(decoded)
        found == lookup_command(cmdname, mode)
        cmdclass == found.value[1]
        parser == found.value[2]
        forcedparms == found.value[3]
        parsed == parse_args(parser, args)
        parms == update(parsed.parms, forcedparms)
        at == IF cmdname \in DOMAIN COMMANDS[mode] THEN mode ELSE "global"
        cmd == [prehook |-> or(get_hook(hookname(pre, chars(at), cmdname)),
                               get_hook(hookname(pre, chars("global"), cmdname))),
                posthook |-> or(get_hook(hookname(post, chars(at), cmdname)),
                                get_hook(hookname(post, chars("global"), cmdname)))]
    IN  IF ~split.ok
        THEN [NoOutcome EXCEPT !.kind = "raise", !.exc = "CommandParseError",
                               !.message = <<split.message>>]
        ELSE IF decoded = <<>>
        THEN [NoOutcome EXCEPT !.kind = "raise", !.exc = "IndexError"]
        ELSE IF found.exc # None
        THEN [NoOutcome EXCEPT !.kind = "raise", !.exc = found.exc, !.cmdname = cmdname,
                               !.args = args, !.looked_up = TRUE]
        ELSE IF cmdclass = None
        THEN [NoOutcome EXCEPT !.kind = "raise", !.exc = "CommandParseError",
                               !.message = unknown_command(cmdname), !.cmdname = cmdname,
                               !.args = args, !.looked_up = TRUE]
        ELSE IF ~parsed.ok
        THEN [NoOutcome EXCEPT !.kind = "raise", !.exc = "CommandParseError",
                               !.message = parsed.message, !.cmdname = cmdname,
                               !.args = args, !.looked_up = TRUE, !.parsed = TRUE]
        ELSE [NoOutcome EXCEPT !.kind = "Command", !.cmdname = cmdname, !.args = args,
                               !.looked_up = TRUE, !.parsed = TRUE, !.instantiated = TRUE,
                               !.cls = cmdclass, !.parms = parms,
                               !.prehook = cmd.prehook, !.posthook = cmd.posthook]

commandfactory(cmdline, mode) ==
    IF cmdline = <<>> THEN NoOutcome
    ELSE
    LET split == split_commandstring(QuotePrepass(BangRewrite(cmdline)))
        decoded == [i \in DOMAIN split.tokens |-> string_decode(split.tokens[i])]
        cmdname == decoded[1]
        args == Tail(decoded)
        found == lookup_command(cmdname, mode)
        cmdclass == found.value[1]
        parser == found.value[2]
        forcedparms == found.value[3]
        parsed == parse_args(parser, args)
        parms == update(parsed.parms, forcedparms)
        cmd == Command_init(cmdclass)
    IN  IF ~split.ok
        THEN [NoOutcome EXCEPT !.kind = "raise", !.exc = "CommandParseError",
                               !.message = <<split.message>>]
        ELSE IF decoded = <<>>
        THEN [NoOutcome EXCEPT !.kind = "raise", !.exc = "IndexError"]
        ELSE IF found.exc # None
        THEN [NoOutcome EXCEPT !.kind = "raise", !.exc = found.exc, !.cmdname = cmdname,
                               !.args = args, !.looked_up = TRUE]
        ELSE IF cmdclass = None
        THEN [NoOutcome EXCEPT !.kind = "raise", !.exc = "CommandParseError",
                               !.message = unknown_command(cmdname), !.cmdname = cmdname,
                               !.args = args, !.looked_up = TRUE]
        ELSE IF ~parsed.ok
        THEN [NoOutcome EXCEPT !.kind = "raise", !.exc = "CommandParseError",
                               !.message = parsed.message, !.cmdname = cmdname,
                               !.args = args, !.looked_up = TRUE, !.parsed = TRUE]
        ELSE [NoOutcome EXCEPT !.kind = "Command", !.cmdname = cmdname, !.args = args,
                               !.looked_up = TRUE, !.parsed = TRUE, !.instantiated = TRUE,
                               !.cls = cmdclass, !.parms = parms,
                               !.prehook = cmd.prehook, !.posthook = cmd.posthook]

----------------------------------------------------------------------------
(* Bounds and inputs *)

\* registrations in one run
MaxRegs == 2

\* words in a command line of Spec
MaxWords == 3

\* characters in a command line of SpecTok
MaxLen == 4

\* a mode identifier that is no key of COMMANDS
AllModes == Modes \cup {"nomode"}

RegModes == {"global", "thread", "nomode"}

Names == {<<"a">>, <<"b">>}

Classes == {"CmdA", "CmdB"}

\* the arguments a decorator declares: an option that stores its value and an
\* optional positional
FlagAndPositional ==
    <<[name |-> <<"-", "-", "f">>, action |-> "store", nargs |-> None],
      [name |-> <<"p">>, action |-> "store", nargs |-> "?"]>>

\* a required positional
Required == <<[name |-> <<"c", "m", "d">>, action |-> "store", nargs |-> None]>>

ForcedFK == (<<"f">> :> <<"Y">>) @@ (<<"k">> :> <<"Z">>)

\* (arguments, forced) of a registerCommand(...)
Declarations ==
    {[arguments |-> <<>>, forced |-> <<>>],
     [arguments |-> FlagAndPositional, forced |-> ForcedFK]}

RECURSIVE Join(_)
Join(words) ==
    IF Len(words) = 0 THEN <<>>
    ELSE IF Len(words) = 1 THEN words[1]
    ELSE words[1] \o <<SP>> \o Join(Tail(words))

Words == {<<>>, <<"a">>, <<"-", "-", "f">>, <<"X">>}

\* the command lines of Spec: up to MaxWords words, single spaces between them
CmdLines == {Join(ws) : ws \in UNION {[1..n -> Words] : n \in 0..MaxWords}}

Alphabet == {"a", SP, SQ, DQ, BS, BANG}

\* the command lines of SpecTok: every string of up to MaxLen characters
Strings == UNION {[1..n -> Alphabet] : n \in 0..MaxLen}

\* pieces in a command line of SpecQuote
MaxPieces == 4

\* unquoted words: the registered name and another one
QWords == {<<"a">>, <<"x">>}

\* what stands between a pair of double quotes: no quote, no backslash
Contents == {<<>>, <<"c">>, <<"a", SP, "b">>}

Quoted(c) == <<DQ>> \o c \o <<DQ>>

Phrases == {Quoted(c) : c \in Contents}

Pieces == QWords \cup Phrases

PieceSeqs == UNION {[1..n -> Pieces] : n \in 1..MaxPieces}

\* the command lines of SpecQuote: up to MaxPieces pieces, single spaces
\* between them
QuoteLines == {Join(ps) : ps \in PieceSeqs}

----------------------------------------------------------------------------
(* State and operations *)

\* last is the call made last with its outcome, until the caller has taken it
Idle == [op |-> "idle"]

Init ==
    /\ COMMANDS = [m \in Modes |-> <<>>]
    /\ REVERSE_COMMANDS = <<>>
    /\ hooks = {}
    /\ history = <<>>
    /\ last = Idle

(* registerCommand(mode, name, forced=forced, arguments=arguments)(class_),  *)
(* with forced and arguments as __init__ stores them (an absent one is the *)
(* empty mapping, the empty list).  A mode that is no key of COMMANDS      *)
(* raises KeyError at the first assignment, before anything is stored.     *)

\* registerCommand with setdefault in place of the two assignments
registerCommand_setdefault(mode, name, forced, arguments, class_) ==
    LET argparser == CommandArgumentParser(name, arguments)
        spec == <<class_, argparser, forced>>
        call == [op |-> "registerCommand", mode |-> mode, name |-> name, forced |-> forced,
                 arguments |-> arguments, class_ |-> class_]
    IN  /\ last = Idle
        /\ Len(history) < MaxRegs
        /\ IF mode \in DOMAIN COMMANDS
           THEN /\ COMMANDS' = [COMMANDS EXCEPT ![mode] =
                                   IF name \in DOMAIN @ THEN @ ELSE (name :> spec) @@ @]
                /\ REVERSE_COMMANDS' = REVERSE_COMMANDS @@ (class_ :> <<name, mode>>)
                /\ history' = Append(history, [mode |-> mode, name |-> name,
                                               class_ |-> class_, spec |-> spec])
                /\ last' = call @@ [out |-> Return(class_)]
           ELSE /\ UNCHANGED <<COMMANDS, REVERSE_COMMANDS, history>>
                /\ last' = call @@ [out |-> Raise("KeyError")]
        /\ UNCHANGED hooks

\* registerCommand assigning a new table to the mode
registerCommand_replaces_table(mode, name, forced, arguments, class_) ==
    LET argparser == CommandArgumentParser(name, arguments)
        spec == <<class_, argparser, forced>>
        call == [op |-> "registerCommand", mode |-> mode, name |-> name, forced |-> forced,
                 arguments |-> arguments, class_ |-> class_]
    IN  /\ last = Idle
        /\ Len(history) < MaxRegs
        /\ IF mode \in DOMAIN COMMANDS
           THEN /\ COMMANDS' = [COMMANDS EXCEPT ![mode] = (name :> spec)]
                /\ REVERSE_COMMANDS' = (class_ :> <<name, mode>>) @@ REVERSE_COMMANDS
                /\ history' = Append(history, [mode |-> mode, name |-> name,
                                               class_ |-> class_, spec |-> spec])
                /\ last' = call @@ [out |-> Return(class_)]
           ELSE /\ UNCHANGED <<COMMANDS, REVERSE_COMMANDS, history>>
                /\ last' = call @@ [out |-> Raise("KeyError")]
        /\ UNCHANGED hooks

\* registerCommand creating the table of a mode that has none
registerCommand_creates_table(mode, name, forced, arguments, class_) ==
    LET argparser == CommandArgumentParser(name, arguments)
        spec == <<class_, argparser, forced>>
        call == [op |-> "registerCommand", mode |-> mode, name |-> name, forced |-> forced,
                 arguments |-> arguments, class_ |-> class_]
        table == IF mode \in DOMAIN COMMANDS THEN COMMANDS[mode] ELSE <<>>
    IN  /\ last = Idle
        /\ Len(history) < MaxRegs
        /\ COMMANDS' = (mode :> ((name :> spec) @@ table)) @@ COMMANDS
        /\ REVERSE_COMMANDS' = (class_ :> <<name, mode>>) @@ REVERSE_COMMANDS
        /\ history' = Append(history, [mode |-> mode, name |-> name,
                                       class_ |-> class_, spec |-> spec])
        /\ last' = call @@ [out |-> Return(class_)]
        /\ UNCHANGED hooks

\* registerCommand with its two assignments in the other order: the reverse
\* entry is written before the mode is looked for
registerCommand_reverse_first(mode, name, forced, arguments, class_) ==
    LET argparser == CommandArgumentParser(name, arguments)
        spec == <<class_, argparser, forced>>
        call == [op |-> "registerCommand", mode |-> mode, name |-> name, forced |-> forced,
                 arguments |-> arguments, class_ |-> class_]
    IN  /\ last = Idle
        /\ Len(history) < MaxRegs
        /\ REVERSE_COMMANDS' = (class_ :> <<name, mode>>) @@ REVERSE_COMMANDS
        /\ IF mode \in DOMAIN COMMANDS
           THEN /\ COMMANDS' = [COMMANDS EXCEPT ![mode] = (name :> spec) @@ @]
                /\ history' = Append(history, [mode |-> mode, name |-> name,
                                               class_ |-> class_, spec |-> spec])
                /\ last' = call @@ [out |-> Return(class_)]
           ELSE /\ UNCHANGED <<COMMANDS, history>>
                /\ last' = call @@ [out |-> Raise("KeyError")]
        /\ UNCHANGED hooks

registerCommand(mode, name, forced, arguments, class_) ==
    LET argparser == CommandArgumentParser(name, arguments)
        spec == <<class_, argparser, forced>>
        call == [op |-> "registerCommand", mode |-> mode, name |-> name, forced |-> forced,
                 arguments |-> arguments, class_ |-> class_]
    IN  /\ last = Idle
        /\ Len(history) < MaxRegs
        /\ IF mode \in DOMAIN COMMANDS
           THEN /\ COMMANDS' = [COMMANDS EXCEPT ![mode] = (name :> spec) @@ @]
                /\ REVERSE_COMMANDS' = (class_ :> <<name, mode>>) @@ REVERSE_COMMANDS
                /\ history' = Append(history, [mode |-> mode, name |-> name,
                                               class_ |-> class_, spec |-> spec])
                /\ last' = call @@ [out |-> Return(class_)]
           ELSE /\ UNCHANGED <<COMMANDS, REVERSE_COMMANDS, history>>
                /\ last' = call @@ [out |-> Raise("KeyError")]
        /\ UNCHANGED hooks

RegisterIn(modes, names, declarations, classes) ==
    \E mode \in modes, name \in names, d \in declarations, class_ \in classes :
        registerCommand(mode, name, d.forced, d.arguments, class_)

Register == RegisterIn(RegModes, Names, Declarations, Classes)

LookupCommand ==
    \E cmdname \in Names, mode \in AllModes :
        /\ last = Idle
        /\ last' = [op |-> "lookup_command", cmdname |-> cmdname, mode |-> mode,
                    out |-> lookup_command(cmdname, mode)]
        /\ UNCHANGED <<COMMANDS, REVERSE_COMMANDS, hooks, history>>

LookupParser ==
    \E cmdname \in Names, mode \in AllModes :
        /\ last = Idle
        /\ last' = [op |-> "lookup_parser", cmdname |-> cmdname, mode |-> mode,
                    out |-> lookup_parser(cmdname, mode)]
        /\ UNCHANGED <<COMMANDS, REVERSE_COMMANDS, hooks, history>>

ReverseLookupCommand ==
    \E class_ \in Classes :
        /\ last = Idle
        /\ last' = [op |-> "reverse_lookup_command", class_ |-> class_,
                    out |-> Return(reverse_lookup_command(class_))]
        /\ UNCHANGED <<COMMANDS, REVERSE_COMMANDS, hooks, history>>

\* a command constructed directly, not through the factory
NewCommand ==
    \E class_ \in Classes :
        /\ last = Idle
        /\ last' = [op |-> "Command", class_ |-> class_, out |-> Return(Command_init(class_))]
        /\ UNCHANGED <<COMMANDS, REVERSE_COMMANDS, hooks, history>>

\* a factory that merges the parsed parameters into the stored forced mapping
\* of the entry it resolved, in place of merging into the parsed ones
Factory_updates_forced(lines, modes) ==
    \E cmdline \in lines, mode \in modes :
        LET out == commandfactory(cmdline, mode)
            at == IF out.cmdname \in DOMAIN COMMANDS[mode] THEN mode ELSE "global"
            spec == COMMANDS[at][out.cmdname]
            parsed == parse_args(spec[2], out.args).parms
        IN  /\ last = Idle
            /\ last' = [op |-> "commandfactory", cmdline |-> cmdline, mode |-> mode,
                        out |-> out]
            /\ IF out.kind = "Command"
               THEN COMMANDS' = [COMMANDS EXCEPT ![at][out.cmdname] =
                                    <<spec[1], spec[2], update(spec[3], parsed)>>]
               ELSE UNCHANGED COMMANDS
            /\ UNCHANGED <<REVERSE_COMMANDS, hooks, history>>

Factory(lines, modes) ==
    \E cmdline \in lines, mode \in modes :
        /\ last = Idle
        /\ last' = [op |-> "commandfactory", cmdline |-> cmdline, mode |-> mode,
                    out |-> commandfactory(cmdline, mode)]
        /\ UNCHANGED <<COMMANDS, REVERSE_COMMANDS, hooks, history>>

\* the command lines of Spec, whose registry is the large one
FewLines ==
    {<<>>, <<SP>>, <<"a">>, <<"b", SP, "X">>, <<"a", SP, "-", "-", "f", SP, "X">>,
     <<BANG, "a">>, <<"a", SP, DQ>>}

CommandFactory == Factory(FewLines, RegModes)

\* the caller takes the outcome: the single thread is ready for its next call
Resume ==
    /\ last # Idle
    /\ last' = Idle
    /\ UNCHANGED <<COMMANDS, REVERSE_COMMANDS, hooks, history>>

Next ==
    \/ Resume
    \/ Register
    \/ LookupCommand
    \/ LookupParser
    \/ ReverseLookupCommand
    \/ NewCommand
    \/ CommandFactory

Spec == Init /\ [][Next]_vars

----------------------------------------------------------------------------
(* SpecFactory: the factory on every command line of CmdLines, over the    *)
(* registries that registering one class under the name a can build.       *)

RegisterA == RegisterIn({"global", "thread"}, {<<"a">>}, Declarations, {"CmdA"})

FactoryWords == Factory(CmdLines, RegModes)

NextFactory ==
    \/ Resume
    \/ RegisterA
    \/ FactoryWords

SpecFactory == Init /\ [][NextFactory]_vars

----------------------------------------------------------------------------
(* SpecTok: the factory on every string of Strings, with the command       *)
(* shellescape registered in the global table as it takes its command      *)
(* line, one required positional.                                          *)

RegisterShell ==
    RegisterIn({"global"}, {shellescape}, {[arguments |-> Required, forced |-> <<>>]},
               {"ShellCmd"})

FactoryStrings == Factory(Strings, {"global"})

NextTok ==
    \/ Resume
    \/ RegisterShell
    \/ FactoryStrings

SpecTok == Init /\ [][NextTok]_vars

----------------------------------------------------------------------------
(* SpecHooks: the hooks file defines any of the four hooks of the command  *)
(* a in the thread mode.                                                   *)

HookNames ==
    {hookname(when, chars(mode), <<"a">>) : when \in {pre, post}, mode \in {"thread", "global"}}

InitHooks ==
    /\ COMMANDS = [m \in Modes |-> <<>>]
    /\ REVERSE_COMMANDS = <<>>
    /\ hooks \in SUBSET HookNames
    /\ history = <<>>
    /\ last = Idle

FactoryA == Factory({<<"a">>}, {"global", "thread"})

RegisterPlain ==
    RegisterIn(RegModes, {<<"a">>}, {[arguments |-> <<>>, forced |-> <<>>]}, Classes)

NextHooks ==
    \/ Resume
    \/ RegisterPlain
    \/ NewCommand
    \/ FactoryA

SpecHooks == InitHooks /\ [][NextHooks]_vars

----------------------------------------------------------------------------
(* SpecQuote: the factory on the lines of QuoteLines, words and double-    *)
(* quoted phrases, with the command a registered in the global table with  *)
(* one required positional.                                                *)

RegisterQuote ==
    RegisterIn({"global"}, {<<"a">>}, {[arguments |-> Required, forced |-> <<>>]}, {"CmdA"})

FactoryQuote == Factory(QuoteLines, {"global"})

NextQuote ==
    \/ Resume
    \/ RegisterQuote
    \/ FactoryQuote

SpecQuote == Init /\ [][NextQuote]_vars

----------------------------------------------------------------------------
(* SpecRereg: classes registered under the names a and b in the thread and *)
(* the global table, built by the factory from either mode, the hooks file *)
(* defining any of the hooks of these names and modes.                     *)

HookNamesAB ==
    {hookname(when, chars(mode), name) :
        when \in {pre, post}, mode \in {"thread", "global"}, name \in Names}

InitRereg ==
    /\ COMMANDS = [m \in Modes |-> <<>>]
    /\ REVERSE_COMMANDS = <<>>
    /\ hooks \in SUBSET HookNamesAB
    /\ history = <<>>
    /\ last = Idle

RegisterAB ==
    RegisterIn({"thread", "global"}, Names, {[arguments |-> <<>>, forced |-> <<>>]}, Classes)

FactoryAB == Factory(Names, {"thread", "global"})

NextRereg ==
    \/ Resume
    \/ RegisterAB
    \/ FactoryAB

SpecRereg == InitRereg /\ [][NextRereg]_vars

----------------------------------------------------------------------------
(* Properties *)

\* the registrations made at (mode, name), by their place in the run
RegistrationsAt(mode, name) ==
    {i \in DOMAIN history : history[i].mode = mode /\ history[i].name = name}

RegistrationsOf(class_) == {i \in DOMAIN history : history[i].class_ = class_}

\* C1: a name registered in a mode at least once looks up, in that mode, to the
\* (implementation, parser, forced) of the most recent registration at that key,
\* whatever was registered there before.
C1_LastWriteWins ==
    /\ \A mode \in Modes, name \in Names :
          RegistrationsAt(mode, name) # {} =>
              lookup_command(name, mode) =
                  Return(history[Max(RegistrationsAt(mode, name))].spec)
    /\ (last.op = "lookup_command" /\ RegistrationsAt(last.mode, last.cmdname) # {}) =>
          last.out = Return(history[Max(RegistrationsAt(last.mode, last.cmdname))].spec)

\* a key registered twice with different specs, then looked up
C1_Witness ==
    /\ last.op = "lookup_command"
    /\ Cardinality(RegistrationsAt(last.mode, last.cmdname)) = 2
    /\ history[1].spec # history[2].spec
    /\ last.out.value = history[2].spec

\* C2: in a mode that has a table, a name the table holds looks up to the
\* table's entry, also when the global table holds the name too; a name it does
\* not hold looks up to the global table's entry when there is one.
C2_LocalShadowsGlobal ==
    /\ \A mode \in Modes, name \in Names :
          /\ name \in DOMAIN COMMANDS[mode] =>
                lookup_command(name, mode) = Return(COMMANDS[mode][name])
          /\ (name \notin DOMAIN COMMANDS[mode] /\ name \in DOMAIN COMMANDS["global"]) =>
                lookup_command(name, mode) = Return(COMMANDS["global"][name])
    /\ (last.op = "lookup_command" /\ last.mode \in Modes) =>
          /\ last.cmdname \in DOMAIN COMMANDS[last.mode] =>
                last.out = Return(COMMANDS[last.mode][last.cmdname])
          /\ (last.cmdname \notin DOMAIN COMMANDS[last.mode]
                /\ last.cmdname \in DOMAIN COMMANDS["global"]) =>
                last.out = Return(COMMANDS["global"][last.cmdname])

\* a name held by the thread table and, with another spec, by the global one,
\* looked up in the thread mode
C2_Witness ==
    /\ last.op = "lookup_command"
    /\ last.mode = "thread"
    /\ last.cmdname \in DOMAIN COMMANDS["thread"]
    /\ last.cmdname \in DOMAIN COMMANDS["global"]
    /\ COMMANDS["thread"][last.cmdname] # COMMANDS["global"][last.cmdname]
    /\ last.out.value = COMMANDS["thread"][last.cmdname]

\* C3: a commandfactory call returns None, returns a Command, or raises
\* CommandParseError; nothing else escapes, whatever the line and the mode.
C3_OnlyParseErrors ==
    last.op = "commandfactory" =>
        \/ last.out.kind \in {None, "Command"}
        \/ last.out.kind = "raise" /\ last.out.exc = "CommandParseError"

\* C4: the parameters a built command is constructed with are the parsed
\* parameters overridden by the forced mapping of the spec the name resolved to:
\* forced keys carry the forced value, the other parsed keys their parsed value,
\* and there is no further key.
C4_ForcedWins ==
    (last.op = "commandfactory" /\ last.out.kind = "Command") =>
        LET found == lookup_command(last.out.cmdname, last.mode).value
            forced == found[3]
            parsed == parse_args(found[2], last.out.args).parms
        IN  /\ DOMAIN last.out.parms = DOMAIN parsed \cup DOMAIN forced
            /\ \A k \in DOMAIN forced : last.out.parms[k] = forced[k]
            /\ \A k \in DOMAIN parsed \ DOMAIN forced : last.out.parms[k] = parsed[k]

\* the user gave --f X to a command whose spec forces f to Y and adds k, and
\* whose positional p is not forced
C4_Witness ==
    /\ last.op = "commandfactory"
    /\ last.out.kind = "Command"
    /\ last.out.args = <<<<"-", "-", "f">>, <<"X">>>>
    /\ lookup_command(last.out.cmdname, last.mode).value[3] = ForcedFK
    /\ last.out.parms[<<"f">>] = <<"Y">>
    /\ last.out.parms[<<"k">>] = <<"Z">>
    /\ last.out.parms[<<"p">>] = NoneStr

\* C5: lookup_command raises nothing, for a mode with a table or without, and
\* returns the not-found triple exactly when neither the table of the mode nor
\* the global table holds the name.
C5_LookupNeverRaises ==
    last.op = "lookup_command" =>
        /\ last.out.exc = None
        /\ last.out.value[1] = None <=>
              \A mode \in {last.mode, "global"} \cap DOMAIN COMMANDS :
                  last.cmdname \notin DOMAIN COMMANDS[mode]

\* the first string a command line splits into
FirstToken(cmdline) ==
    string_decode(split_commandstring(QuotePrepass(BangRewrite(cmdline))).tokens[1])

HasFirstToken(cmdline) ==
    /\ cmdline # <<>>
    /\ split_commandstring(QuotePrepass(BangRewrite(cmdline))).tokens # <<>>

\* C7: in a mode that has a table, a line whose first token is a name neither
\* that table nor the global table holds makes commandfactory raise
\* CommandParseError with the message unknown command: and the name, and neither
\* the parser nor a class is called.
C7_UnknownCommand ==
    (/\ last.op = "commandfactory"
     /\ last.mode \in Modes
     /\ HasFirstToken(last.cmdline)
     /\ FirstToken(last.cmdline) \notin DOMAIN COMMANDS[last.mode]
     /\ FirstToken(last.cmdline) \notin DOMAIN COMMANDS["global"]) =>
        /\ last.out.kind = "raise"
        /\ last.out.exc = "CommandParseError"
        /\ last.out.message = <<"unknown command: ">> \o FirstToken(last.cmdline)
        /\ ~last.out.parsed
        /\ ~last.out.instantiated

\* the name a is registered in the global table and the line asks for X, with
\* an argument
C7_Witness ==
    /\ last.op = "commandfactory"
    /\ last.mode = "thread"
    /\ <<"a">> \in DOMAIN COMMANDS["global"]
    /\ last.cmdline = <<"X", SP, "a">>
    /\ last.out.message = <<"unknown command: ", "X">>
    /\ last.out.looked_up

\* C8: reverse_lookup_command gives, for a class that was registered, the
\* (name, mode) of its most recent registration, and for a class that never was,
\* the pair (None, None).
C8_ReverseLastWins ==
    /\ \A class_ \in Classes :
          reverse_lookup_command(class_) =
              IF RegistrationsOf(class_) = {} THEN <<NoneStr, None>>
              ELSE LET r == history[Max(RegistrationsOf(class_))] IN <<r.name, r.mode>>
    /\ last.op = "reverse_lookup_command" =>
          last.out.value =
              IF RegistrationsOf(last.class_) = {} THEN <<NoneStr, None>>
              ELSE LET r == history[Max(RegistrationsOf(last.class_))] IN <<r.name, r.mode>>

\* a class registered twice, under two different (mode, name), then looked up
C8_Witness ==
    /\ last.op = "reverse_lookup_command"
    /\ Cardinality(RegistrationsOf(last.class_)) = 2
    /\ <<history[1].mode, history[1].name>> # <<history[2].mode, history[2].name>>
    /\ last.out.value = <<history[2].name, history[2].mode>>

\* C6: a line that is ! followed by a remainder makes commandfactory look up
\* shellescape and split off exactly one argument string, the remainder, whatever
\* spaces, quotes or backslashes the remainder holds.
C6_BangRemainder ==
    (last.op = "commandfactory" /\ startswith(last.cmdline, <<BANG>>)) =>
        /\ last.out.looked_up
        /\ last.out.cmdname = shellescape
        /\ last.out.args = <<Tail(last.cmdline)>>

\* C9: a new command whose class has the reverse entry (name, mode) gets as
\* prehook the hook pre_mode_name when the hooks file defines it, else the hook
\* pre_global_name when it defines that, else None; and as posthook the same with
\* post for pre.
Resolved(when, class_) ==
    LET name == REVERSE_COMMANDS[class_][1]
        mode == REVERSE_COMMANDS[class_][2]
        own == when \o <<"_">> \o chars(mode) \o <<"_">> \o name
        global == when \o <<"_", "g", "l", "o", "b", "a", "l", "_">> \o name
    IN  IF own \in hooks THEN own ELSE IF global \in hooks THEN global ELSE NoneStr

C9_HookPriority ==
    /\ (last.op = "Command" /\ last.class_ \in DOMAIN REVERSE_COMMANDS) =>
          /\ last.out.value.prehook = Resolved(pre, last.class_)
          /\ last.out.value.posthook = Resolved(post, last.class_)
    /\ (last.op = "commandfactory" /\ last.out.kind = "Command") =>
          /\ last.out.prehook = Resolved(pre, last.out.cls)
          /\ last.out.posthook = Resolved(post, last.out.cls)

\* both pre hooks are defined and the thread one is taken; of the post hooks only
\* the global one is defined, and it is taken
C9_Witness ==
    /\ last.op = "Command"
    /\ last.class_ \in DOMAIN REVERSE_COMMANDS
    /\ REVERSE_COMMANDS[last.class_] = <<<<"a">>, "thread">>
    /\ hooks = HookNames \ {post \o <<"_">> \o chars("thread") \o <<"_", "a">>}
    /\ last.out.value.prehook = pre \o <<"_">> \o chars("thread") \o <<"_", "a">>
    /\ last.out.value.posthook = post \o <<"_">> \o chars("global") \o <<"_", "a">>

\* C10: a registration that succeeds makes the forward entry at its (mode, name)
\* the (class, parser, forced) it was given and the reverse entry of its class
\* (name, mode), returns the class itself, and changes no other forward entry and
\* no other reverse entry.
C10_RegisterFrame ==
    [][(last'.op = "registerCommand" /\ last'.out.exc = None) =>
          /\ last'.out.value = last'.class_
          /\ DOMAIN COMMANDS' = DOMAIN COMMANDS
          /\ COMMANDS'[last'.mode][last'.name] =
                <<last'.class_, CommandArgumentParser(last'.name, last'.arguments),
                  last'.forced>>
          /\ REVERSE_COMMANDS'[last'.class_] = <<last'.name, last'.mode>>
          /\ \A mode \in DOMAIN COMMANDS :
                /\ DOMAIN COMMANDS'[mode] \ {last'.name} = DOMAIN COMMANDS[mode] \ {last'.name}
                /\ mode # last'.mode => COMMANDS'[mode] = COMMANDS[mode]
                /\ \A name \in DOMAIN COMMANDS[mode] \ {last'.name} :
                      COMMANDS'[mode][name] = COMMANDS[mode][name]
          /\ DOMAIN REVERSE_COMMANDS' = DOMAIN REVERSE_COMMANDS \cup {last'.class_}
          /\ \A class_ \in DOMAIN REVERSE_COMMANDS \ {last'.class_} :
                REVERSE_COMMANDS'[class_] = REVERSE_COMMANDS[class_]
      ]_vars

\* a registration into a table that holds another name, with another class in
\* the reverse registry
C10_Witness ==
    /\ last.op = "registerCommand"
    /\ last.out.exc = None
    /\ DOMAIN COMMANDS[last.mode] = {<<"a">>, <<"b">>}
    /\ DOMAIN REVERSE_COMMANDS = Classes

\* C11: a commandfactory call, whether it returns None, returns a command or
\* raises, leaves every mode table with every stored (class, parser, forced) and
\* the reverse registry as they were, so that every lookup and reverse lookup
\* gives after the call what it gave before it.
C11_FactoryFrame ==
    [][last'.op = "commandfactory" =>
          /\ COMMANDS' = COMMANDS
          /\ REVERSE_COMMANDS' = REVERSE_COMMANDS
          /\ \A name \in Names, mode \in AllModes :
                lookup_command(name, mode)' = lookup_command(name, mode)
          /\ \A class_ \in Classes :
                reverse_lookup_command(class_)' = reverse_lookup_command(class_)
      ]_vars

\* a command built from --f X through an entry in the thread table whose forced
\* mapping overrides f, the class having another reverse entry by then
C11_Witness ==
    /\ last.op = "commandfactory"
    /\ last.mode = "thread"
    /\ last.out.kind = "Command"
    /\ last.out.args = <<<<"-", "-", "f">>, <<"X">>>>
    /\ last.out.cmdname \in DOMAIN COMMANDS["thread"]
    /\ COMMANDS["thread"][last.out.cmdname][3] = ForcedFK
    /\ last.out.parms[<<"f">>] = <<"Y">>
    /\ Len(history) = MaxRegs

\* C12: a line that is a command word, a space and one double-quoted phrase
\* without quote or backslash characters splits into exactly two strings, the
\* command word and the content of the phrase, the text between the quotes.
C12_QuotedPhraseContent ==
    \A w \in QWords, c \in Contents :
        (last.op = "commandfactory" /\ last.cmdline = w \o <<SP>> \o Quoted(c)) =>
            /\ last.out.cmdname = w
            /\ last.out.args = <<c>>

\* C12 as amended: such a line splits into exactly two strings, the command
\* word and the phrase with its two double quote characters kept.
C12_QuotedPhraseKeepsQuotes ==
    \A w \in QWords, c \in Contents :
        (last.op = "commandfactory" /\ last.cmdline = w \o <<SP>> \o Quoted(c)) =>
            /\ last.out.looked_up
            /\ last.out.cmdname = w
            /\ last.out.args = <<Quoted(c)>>

\* the registered command a built from a phrase of two words
C12_Witness ==
    /\ last.op = "commandfactory"
    /\ last.cmdline = <<"a", SP>> \o Quoted(<<"a", SP, "b">>)
    /\ last.out.kind = "Command"
    /\ Len(last.out.args) = 1
    /\ last.out.parms[<<"c", "m", "d">>] = <<DQ, "a", SP, "b", DQ>>

\* the line, read by the rules of the tokenizer, ends inside a quote that was
\* opened and not closed
UnterminatedQuote(cmdline) ==
    LET r == split_commandstring(cmdline)
    IN  ~r.ok /\ r.message = "No closing quotation"

\* C13: on every line that holds an unterminated single or double quote,
\* commandfactory raises CommandParseError with the message of the tokenizer,
\* and neither looks a name up nor calls a class.
C13_UnterminatedQuote ==
    (last.op = "commandfactory" /\ UnterminatedQuote(last.cmdline)) =>
        /\ last.out.kind = "raise"
        /\ last.out.exc = "CommandParseError"
        /\ last.out.message = <<"No closing quotation">>
        /\ ~last.out.looked_up
        /\ ~last.out.instantiated

\* C13 as amended: the same on every such line that does not start with the
\* exclamation mark of the shellescape shorthand.
C13_UnterminatedQuoteNoBang ==
    (/\ last.op = "commandfactory"
     /\ ~startswith(last.cmdline, <<BANG>>)
     /\ UnterminatedQuote(last.cmdline)) =>
        /\ last.out.kind = "raise"
        /\ last.out.exc = "CommandParseError"
        /\ last.out.message = <<"No closing quotation">>
        /\ ~last.out.looked_up
        /\ ~last.out.instantiated

\* the command word a followed by a double quote that is never closed
C13_Witness ==
    /\ last.op = "commandfactory"
    /\ last.cmdline = <<"a", SP, DQ, "a">>
    /\ last.out.exc = "CommandParseError"
    /\ last.out.message = <<"No closing quotation">>

\* C14: on the empty command line commandfactory returns None and raises
\* nothing, in a mode with a table or without one and whatever the registries
\* hold, and it neither looks a name up, nor runs a parser, nor calls a class.
C14_EmptyLineIsNone ==
    (last.op = "commandfactory" /\ last.cmdline = <<>>) =>
        /\ last.out.kind = None
        /\ last.out.exc = None
        /\ ~last.out.looked_up
        /\ ~last.out.parsed
        /\ ~last.out.instantiated

\* the empty line in a mode without a table, names being registered
C14_Witness ==
    /\ last.op = "commandfactory"
    /\ last.cmdline = <<>>
    /\ last.mode = "nomode"
    /\ DOMAIN COMMANDS["global"] # {}
    /\ last.out = NoOutcome

\* C15: the modes that have a table are search, envelope, bufferlist, taglist,
\* thread and global in every reachable state; no step adds or removes a table,
\* and a registration that names another mode raises and leaves the forward and
\* the reverse registry as they were.
C15_FixedModes ==
    /\ [](DOMAIN COMMANDS = {"search", "envelope", "bufferlist", "taglist", "thread", "global"})
    /\ [][/\ DOMAIN COMMANDS' = DOMAIN COMMANDS
          /\ (last'.op = "registerCommand" /\ last'.mode \notin DOMAIN COMMANDS) =>
                /\ last'.out.exc = "KeyError"
                /\ COMMANDS' = COMMANDS
                /\ REVERSE_COMMANDS' = REVERSE_COMMANDS
        ]_vars

\* a registration in a mode without a table, after one that succeeded
C15_Witness ==
    /\ last.op = "registerCommand"
    /\ last.mode = "nomode"
    /\ last.out.exc = "KeyError"
    /\ Len(history) = 1
    /\ last.class_ \notin DOMAIN REVERSE_COMMANDS

\* the hook of a (mode, name): the one of the mode when the hooks file defines
\* it, else the global one when it defines that, else None
HookFor(when, mode, name) ==
    LET own == when \o <<"_">> \o chars(mode) \o <<"_">> \o name
        global == when \o <<"_", "g", "l", "o", "b", "a", "l", "_">> \o name
    IN  IF own \in hooks THEN own ELSE IF global \in hooks THEN global ELSE NoneStr

\* the table a line of the mode with the name resolves in
ResolvesIn(mode, name) == IF name \in DOMAIN COMMANDS[mode] THEN mode ELSE "global"

\* C16: a command the factory builds through a forward entry is an instance of
\* the class the entry holds, and its hooks are those of the (mode, name) the
\* class was registered with last, not those of the entry it was built through:
\* for a class registered at (m1, n1) and later at (m2, n2) and built through
\* (m1, n1), the hooks of (m2, n2), and for a class registered in the global
\* table and built from another mode, the hooks of the global mode.
C16_HooksOfLastRegistration ==
    (last.op = "commandfactory" /\ last.out.kind = "Command") =>
        LET n1 == last.out.cmdname
            m1 == ResolvesIn(last.mode, n1)
            C == COMMANDS[m1][n1][1]
            r == history[Max(RegistrationsOf(C))]
        IN  /\ last.out.cls = C
            /\ last.out.prehook = HookFor(pre, r.mode, r.name)
            /\ last.out.posthook = HookFor(post, r.mode, r.name)
            /\ (m1 = "global" /\ r.mode = "global" /\ r.name = n1) =>
                  /\ last.out.prehook \in {NoneStr, hookname(pre, chars("global"), n1)}
                  /\ last.out.posthook \in {NoneStr, hookname(post, chars("global"), n1)}

\* a class registered at (thread, a), then at (global, b), and built from the
\* line a in the thread mode: every hook of a and of b is defined and the
\* command gets those of global b
C16_Witness ==
    /\ last.op = "commandfactory"
    /\ last.mode = "thread"
    /\ last.cmdline = <<"a">>
    /\ Len(history) = 2
    /\ history[1].class_ = history[2].class_
    /\ <<history[1].mode, history[1].name>> = <<"thread", <<"a">>>>
    /\ <<history[2].mode, history[2].name>> = <<"global", <<"b">>>>
    /\ hooks = HookNamesAB
    /\ last.out.cls = history[1].class_
    /\ last.out.prehook = hookname(pre, chars("global"), <<"b">>)
    /\ last.out.posthook = hookname(post, chars("global"), <<"b">>)

\* a class registered in the global table only and built from the thread mode,
\* the hooks file defining the hooks of the thread mode and of the global one
C16_WitnessGlobal ==
    /\ last.op = "commandfactory"
    /\ last.mode = "thread"
    /\ last.cmdline = <<"a">>
    /\ Len(history) = 1
    /\ history[1].mode = "global"
    /\ hooks = HookNamesAB
    /\ last.out.prehook = hookname(pre, chars("global"), <<"a">>)

\* C17: a line of a command word and further pieces, two or more of them
\* double-quoted phrases, splits into one string for each piece: for a phrase
\* a string holding its content (with the double quotes around it or without),
\* for an unquoted word the word.
C17_EachPhraseOneToken ==
    \A ps \in PieceSeqs :
        (/\ last.op = "commandfactory"
         /\ last.cmdline = Join(ps)
         /\ ps[1] \in QWords
         /\ Cardinality({i \in DOMAIN ps : ps[i] \in Phrases}) >= 2) =>
            /\ last.out.cmdname = ps[1]
            /\ Len(last.out.args) = Len(ps) - 1
            /\ \A i \in 2..Len(ps) :
                  IF ps[i] \in Phrases
                  THEN last.out.args[i - 1] \in {ps[i], SubSeq(ps[i], 2, Len(ps[i]) - 1)}
                  ELSE last.out.args[i - 1] = ps[i]

\* C18: in every reachable state every class held by a mode table has a reverse
\* entry, so that reverse_lookup_command does not give it the pair of None, and
\* every reverse entry (name, mode) names a mode that has a table and a name
\* that table holds; and no step removes a forward or a reverse entry: a name
\* that resolved in a mode and a class that had a reverse entry still do.
C18_RegistriesConsistent ==
    /\ [](/\ \A mode \in DOMAIN COMMANDS : \A name \in DOMAIN COMMANDS[mode] :
                /\ COMMANDS[mode][name][1] \in DOMAIN REVERSE_COMMANDS
                /\ reverse_lookup_command(COMMANDS[mode][name][1]) # <<NoneStr, None>>
          /\ \A class_ \in DOMAIN REVERSE_COMMANDS :
                /\ REVERSE_COMMANDS[class_][2] \in DOMAIN COMMANDS
                /\ REVERSE_COMMANDS[class_][1] \in DOMAIN COMMANDS[REVERSE_COMMANDS[class_][2]])
    /\ [][/\ DOMAIN COMMANDS \subseteq DOMAIN COMMANDS'
          /\ \A mode \in DOMAIN COMMANDS : DOMAIN COMMANDS[mode] \subseteq DOMAIN COMMANDS'[mode]
          /\ DOMAIN REVERSE_COMMANDS \subseteq DOMAIN REVERSE_COMMANDS'
          /\ \A name \in Names, mode \in Modes :
                lookup_command(name, mode).value[1] # None =>
                    lookup_command(name, mode)'.value[1] # None
        ]_vars

\* two classes registered one after the other at the same key: the forward
\* entry holds the second, the first keeps its reverse entry naming that key,
\* and its reverse lookup gives it
C18_Witness ==
    /\ Len(history) = 2
    /\ history[1].class_ # history[2].class_
    /\ <<history[1].mode, history[1].name>> = <<history[2].mode, history[2].name>>
    /\ last.op = "reverse_lookup_command"
    /\ last.class_ = history[1].class_
    /\ last.out.value = <<history[1].name, history[1].mode>>
    /\ COMMANDS[history[1].mode][history[1].name][1] = history[2].class_

====
